---- MODULE Spec2Model ----
(***************************************************************************)
(* X-Ray decision-trail library: the Execution recorder (XRay), the step   *)
(* builder (StepBuilder), the two storage adapters (InMemoryStorage and    *)
(* MongoDBAdapter), the legacy collector (XRayCollector), the POST route   *)
(* that stores what the collector sends, and the competitor-detection      *)
(* route that runs the five-stage pipeline on one recorder.                *)
(*                                                                         *)
(* Objects live in heaps indexed by creation order: xrays[r] is the r-th   *)
(* XRay instance, builders[b] the b-th StepBuilder.  An Execution's steps  *)
(* array holds references (builder indices), because record() pushes the  *)
(* builder's own stepData object; InMemoryStorage holds a reference to the *)
(* recorder's Execution object, MongoDB holds a serialized copy.           *)
(* An optional field is None (<<>>) when unset and Some(v) (<<v>>) when    *)
(* set.                                                                    *)
(***************************************************************************)
EXTENDS Integers, Sequences, FiniteSets, TLC

\* ------------------------------------------------------------------ bounds
MaxClock == 2
MaxBuilders == 2
MaxSteps == 2
MaxInflight == 2
MaxOid == 3
MaxLoads == 2
MaxProducts == 2

\* ------------------------------------------------------- input domains
PipelineNames == {"p1", "p2"}
StepNames == {"s1"}
Reasons == {"why"}
Durations == {5}
Results == {"w1", "w2"}
ExplicitIds == {<< "x1", 0, 0 >>}
AbsentId == << "absent", 0, 0 >>
Data == {"d"}
Terminal == {"success", "failure", "cancelled"}
Statuses == {"pending"} \cup Terminal
AdapterKinds == {"memory", "mongo"}
XRayRefs == {1, 2}

None == << >>
Some(v) == << v >>
IsSet(o) == o # None

\* ------------------------------------------------------------------- state
VARIABLES
    now,        \* the wall clock read by Date.now() and new Date()
    adapter,    \* which StorageAdapter implementation the recorders were given
    xrays,      \* heap of XRay instances: [execution, autoSave, startTime]
    builders,   \* heap of StepBuilder instances: [xray, stepData]
    store,      \* InMemoryStorage.store: insertion-ordered <<key, ref>> entries
    collection, \* the MongoDB collection xray_executions: sequence of documents
    nextOid,    \* next ObjectId the server assigns on insert
    inflight,   \* replaceOne commands sent to MongoDB and not yet answered
    completion, \* per XRay: state of the promise returned by the last complete()
    logged,     \* number of "[X-Ray] Auto-save failed" lines written
    thrown,     \* the exception thrown by the last synchronous library call
    collectors, \* heap of XRayCollector instances: [execution, startTime]
    loaded,     \* what the calls of XRay.load returned, in call order
    route       \* the competitor-detection POST handler: position and locals

vars == << now, adapter, xrays, builders, store, collection, nextOid,
           inflight, completion, logged, thrown, collectors, loaded, route >>

\* The state outside the library and its adapters: the actions of the
\* recorder, the builders, the adapters and the collector leave it alone.
ext == << loaded, route >>

\* exec_${Date.now()}_${Math.random()...}: the clock read and the random suffix
generateId(t, rnd) == << "exec", t, rnd >>

IsTerminal(s) == s \in Terminal

\* ----------------------------------------------------------- serialization
\* The value of a step object / an Execution object at this moment, with the
\* references in steps replaced by the objects they point to.
StepValue(bs, b) == bs[b].stepData

ExecutionValue(bs, e) ==
    [e EXCEPT !.steps = [i \in 1..Len(e.steps) |-> StepValue(bs, e.steps[i])]]

\* The POST handler before a request has arrived
RouteIdle ==
    [pc                |-> "idle",
     body              |-> None,
     xray              |-> 0,
     allProducts       |-> << >>,
     keywords          |-> << >>,
     searchTerms       |-> << >>,
     candidates        |-> << >>,
     filterEvaluations |-> << >>,
     llmEvaluations    |-> << >>,
     rankedCompetitors |-> None,
     selected          |-> None,
     response          |-> 0,
     details           |-> None]

\* The variables of the library, its adapters and the collector
lib == << now, adapter, xrays, builders, store, collection, nextOid,
         inflight, completion, logged, thrown, collectors >>

\* ------------------------------------------------------------------- Init
Init ==
    /\ now = 0
    /\ adapter \in AdapterKinds
    /\ xrays = << >>
    /\ builders = << >>
    /\ store = << >>
    /\ collection = << >>
    /\ nextOid = 1
    /\ inflight = {}
    /\ completion = << >>
    /\ logged = 0
    /\ thrown = "none"
    /\ collectors = << >>
    /\ loaded = << >>
    /\ route = RouteIdle

\* Time passes.
Tick ==
    /\ now < MaxClock
    /\ now' = now + 1
    /\ UNCHANGED << adapter, xrays, builders, store, collection, nextOid,
                    inflight, completion, logged, thrown, collectors >>

\* ------------------------------------------------------- InMemoryStorage
\* Mutant of MapSet: the entry is appended whether or not the key is there.
MapSetAppend(m, k, v) == Append(m, << k, v >>)

\* Map.prototype.set: an existing key keeps its position and gets the new
\* value, a new key is appended.
MapSet(m, k, v) ==
    IF \E i \in 1..Len(m) : m[i][1] = k
    THEN [i \in 1..Len(m) |-> IF m[i][1] = k THEN << k, v >> ELSE m[i]]
    ELSE Append(m, << k, v >>)

MapHas(m, k) == \E i \in 1..Len(m) : m[i][1] = k

MapGet(m, k) == m[CHOOSE i \in 1..Len(m) : m[i][1] = k][2]

\* Map.prototype.delete
MapDelete(m, k) == SelectSeq(m, LAMBDA e : e[1] # k)

\* InMemoryStorage.save: this.store.set(execution.id, execution); the value
\* stored is the reference r to the recorder's Execution object.
InMemorySave(m, id, r) == MapSet(m, id, r)

\* ------------------------------------------------------- MongoDBAdapter
\* Index of the first document of coll whose id field is id
FirstMatch(coll, id) ==
    CHOOSE i \in 1..Len(coll) :
        /\ coll[i].id = id
        /\ \A k \in 1..(i - 1) : coll[k].id # id

HasMatch(coll, id) == \E i \in 1..Len(coll) : coll[i].id = id

\* Mutant of ReplaceOne: a field-level update in which the fields of the
\* stored document survive.
ReplaceOneMerge(coll, doc, oid) ==
    IF HasMatch(coll, doc.id)
    THEN [coll EXCEPT ![FirstMatch(coll, doc.id)] = @ @@ doc]
    ELSE Append(coll, [_id |-> oid] @@ doc)

\* replaceOne({id: doc.id}, doc, {upsert: true}): the first document whose id
\* matches is replaced wholesale and keeps its _id; with no match the
\* document is inserted under a fresh _id.
ReplaceOne(coll, doc, oid) ==
    IF HasMatch(coll, doc.id)
    THEN [coll EXCEPT ![FirstMatch(coll, doc.id)] =
             [_id |-> coll[FirstMatch(coll, doc.id)]._id] @@ doc]
    ELSE Append(coll, [_id |-> oid] @@ doc)

\* Mutant of DeleteOne: when some document matches, the first document of
\* the collection is removed, whatever its id.
DeleteOneHead(coll, id) ==
    IF HasMatch(coll, id) THEN Tail(coll) ELSE coll

\* deleteOne({id}): removes the first matching document
DeleteOne(coll, id) ==
    IF HasMatch(coll, id)
    THEN [i \in 1..(Len(coll) - 1) |->
             IF i < FirstMatch(coll, id) THEN coll[i] ELSE coll[i + 1]]
    ELSE coll

\* ------------------------------------------------------------------ XRay
\* XRay.create / constructor.  The constructor reads the clock three times:
\* startTime at the current time, the generated id at t2, startedAt at t3.
Create(r, name, explicitId, auto, rnd, t2, t3) ==
    /\ r = Len(xrays) + 1
    /\ now <= t2 /\ t2 <= t3 /\ t3 <= MaxClock
    /\ xrays' = Append(xrays,
          [startTime |-> now,
           autoSave  |-> auto,
           execution |->
              [id            |-> IF explicitId # None THEN explicitId[1]
                                 ELSE generateId(t2, rnd),
               pipelineName  |-> name,
               steps         |-> << >>,
               status        |-> "pending",
               startedAt     |-> t3,
               completedAt   |-> None,
               totalDuration |-> None,
               result        |-> None,
               metadata      |-> {}]])
    /\ now' = t3
    /\ completion' = Append(completion, "none")
    /\ thrown' = "none"
    /\ UNCHANGED << adapter, builders, store, collection, nextOid, inflight,
                    logged, collectors >>

\* XRay.step -> new StepBuilder(stepName, this)
Step(r, name) ==
    /\ r \in 1..Len(xrays)
    /\ Len(builders) < MaxBuilders
    /\ builders' = Append(builders,
          [xray |-> r,
           stepData |-> [id        |-> << "step", now >>,
                         name      |-> name,
                         timestamp |-> now,
                         input     |-> "{}",
                         output    |-> "{}",
                         reasoning |-> "",
                         duration  |-> None]])
    /\ thrown' = "none"
    /\ UNCHANGED << now, adapter, xrays, store, collection, nextOid, inflight,
                    completion, logged, collectors >>

\* StepBuilder.input / output / reason / duration: assign one field of
\* this.stepData and return this.
SetField(b, field, value) ==
    /\ b \in 1..Len(builders)
    /\ builders' = [builders EXCEPT ![b].stepData[field] = value]
    /\ thrown' = "none"
    /\ UNCHANGED << now, adapter, xrays, store, collection, nextOid, inflight,
                    completion, logged, collectors >>

input(b, data) == SetField(b, "input", data)

output(b, data) == SetField(b, "output", data)

reason(b, explanation) == SetField(b, "reasoning", explanation)

duration(b, ms) == SetField(b, "duration", Some(ms))

\* XRay.save -> this.storage.save(this.execution), as it changes the adapter
\* state at the moment of the call, for the recorder heap xs and builder heap
\* bs the call sees: InMemoryStorage stores the reference at once and cannot
\* fail; MongoDBAdapter sends a replaceOne carrying the document as it is
\* now, answered later by MongoReply.
SaveCall(r, kind, xs, bs) ==
    IF adapter = "memory"
    THEN /\ store' = InMemorySave(store, xs[r].execution.id, r)
         /\ inflight' = inflight
    ELSE /\ store' = store
         /\ inflight' = inflight \cup
               {[xray |-> r, kind |-> kind,
                 doc |-> ExecutionValue(bs, xs[r].execution)]}

CanSave == adapter = "mongo" => Cardinality(inflight) < MaxInflight

\* XRay.save called directly
save(r) ==
    /\ r \in 1..Len(xrays)
    /\ CanSave
    /\ SaveCall(r, "save", xrays, builders)
    /\ thrown' = "none"
    /\ UNCHANGED << now, adapter, xrays, builders, collection, nextOid,
                    completion, logged, collectors >>

\* XRay.addStep
addStep(r, b) ==
    /\ Len(xrays[r].execution.steps) < MaxSteps
    /\ xrays' = [xrays EXCEPT ![r].execution.steps = Append(@, b)]
    /\ IF xrays[r].autoSave
       THEN CanSave /\ SaveCall(r, "auto", xrays', builders)
       ELSE UNCHANGED << store, inflight >>
    /\ thrown' = "none"
    /\ UNCHANGED << now, adapter, builders, collection, nextOid, completion,
                    logged, collectors >>

\* StepBuilder.record
record(b) ==
    /\ b \in 1..Len(builders)
    /\ addStep(builders[b].xray, b)

\* XRay.setResult
setResult(r, result) ==
    /\ r \in 1..Len(xrays)
    /\ xrays' = [xrays EXCEPT ![r].execution.result = Some(result)]
    /\ thrown' = "none"
    /\ UNCHANGED << now, adapter, builders, store, collection, nextOid,
                    inflight, completion, logged, collectors >>

\* Mutant of complete: the Execution is saved as it is, and its status,
\* completedAt and totalDuration are left for after the save.
completeSaveFirst(r, status, t2) ==
    /\ r \in 1..Len(xrays)
    /\ CanSave
    /\ now <= t2 /\ t2 <= MaxClock
    /\ xrays' = xrays
    /\ now' = t2
    /\ SaveCall(r, "complete", xrays, builders)
    /\ completion' = [completion EXCEPT ![r] =
          IF adapter = "memory" THEN "resolved" ELSE "pending"]
    /\ thrown' = "none"
    /\ UNCHANGED << adapter, builders, collection, nextOid, logged, collectors >>

\* Mutant of complete: the save is started and not awaited, so complete()
\* returns at once whatever becomes of the write.
completeDetached(r, status, t2) ==
    /\ r \in 1..Len(xrays)
    /\ CanSave
    /\ now <= t2 /\ t2 <= MaxClock
    /\ xrays' = [xrays EXCEPT
          ![r].execution.status = status,
          ![r].execution.completedAt = Some(now),
          ![r].execution.totalDuration = Some(t2 - xrays[r].startTime)]
    /\ now' = t2
    /\ SaveCall(r, "auto", xrays', builders)
    /\ completion' = [completion EXCEPT ![r] = "resolved"]
    /\ thrown' = "none"
    /\ UNCHANGED << adapter, builders, collection, nextOid, logged, collectors >>

\* XRay.complete: status, completedAt = new Date() at the current time,
\* totalDuration = Date.now() - startTime with the clock read at t2, then
\* await this.save().
complete(r, status, t2) ==
    /\ r \in 1..Len(xrays)
    /\ CanSave
    /\ now <= t2 /\ t2 <= MaxClock
    /\ xrays' = [xrays EXCEPT
          ![r].execution.status = status,
          ![r].execution.completedAt = Some(now),
          ![r].execution.totalDuration = Some(t2 - xrays[r].startTime)]
    /\ now' = t2
    /\ SaveCall(r, "complete", xrays', builders)
    /\ completion' = [completion EXCEPT ![r] =
          IF adapter = "memory" THEN "resolved" ELSE "pending"]
    /\ thrown' = "none"
    /\ UNCHANGED << adapter, builders, collection, nextOid, logged, collectors >>

\* Mutant of MongoReply: addStep without its .catch, so that a failed
\* auto-save surfaces as an unhandled rejection.
MongoReplyUncaught(w, ok) ==
    /\ w \in inflight
    /\ inflight' = inflight \ {w}
    /\ IF ok
       THEN /\ HasMatch(collection, w.doc.id) \/ nextOid <= MaxOid
            /\ collection' = ReplaceOne(collection, w.doc, nextOid)
            /\ nextOid' = IF HasMatch(collection, w.doc.id)
                          THEN nextOid ELSE nextOid + 1
       ELSE UNCHANGED << collection, nextOid >>
    /\ completion' = IF w.kind = "complete"
                     THEN [completion EXCEPT ![w.xray] =
                             IF ok THEN "resolved" ELSE "rejected"]
                     ELSE completion
    /\ logged' = logged
    /\ thrown' = IF w.kind = "auto" /\ ~ok THEN "unhandled rejection"
                 ELSE thrown
    /\ UNCHANGED << now, adapter, xrays, builders, store, collectors >>

\* The server answers a replaceOne: it is applied, or it fails (network,
\* server error).  A failed auto-save is caught and logged (addStep's
\* .catch); a failed completion save rejects complete()'s promise.
MongoReply(w, ok) ==
    /\ w \in inflight
    /\ inflight' = inflight \ {w}
    /\ IF ok
       THEN /\ HasMatch(collection, w.doc.id) \/ nextOid <= MaxOid
            /\ collection' = ReplaceOne(collection, w.doc, nextOid)
            /\ nextOid' = IF HasMatch(collection, w.doc.id)
                          THEN nextOid ELSE nextOid + 1
       ELSE UNCHANGED << collection, nextOid >>
    /\ completion' = IF w.kind = "complete"
                     THEN [completion EXCEPT ![w.xray] =
                             IF ok THEN "resolved" ELSE "rejected"]
                     ELSE completion
    /\ logged' = IF w.kind = "auto" /\ ~ok THEN logged + 1 ELSE logged
    /\ UNCHANGED << now, adapter, xrays, builders, store, thrown, collectors >>

\* --------------------------------------------------------- XRayCollector
\* JSON.stringify of a Date: its ISO string
Iso(t) == << "iso", t >>

\* JSON.stringify(this.execution): the dates become strings
Json(e) ==
    [e EXCEPT !.startedAt = Iso(@),
              !.completedAt = IF @ = None THEN None ELSE Some(Iso(@[1])),
              !.steps = [i \in 1..Len(@) |->
                            [@[i] EXCEPT !.timestamp = Iso(@)]]]

\* POST /api/xray/executions: id and executionId are both filled in, and
\* each step gets both name and stepName.
Normalize(body) ==
    [id |-> body.executionId] @@
    [body EXCEPT !.steps = [i \in 1..Len(@) |->
                               [name |-> @[i].stepName] @@ @[i]]]

\* new XRayCollector(workflowName, executionId?): startTime at the current
\* time, the generated id at t2, startedAt at t3.
NewCollector(c, workflowName, explicitId, rnd, t2, t3) ==
    /\ c = Len(collectors) + 1
    /\ now <= t2 /\ t2 <= t3 /\ t3 <= MaxClock
    /\ collectors' = Append(collectors,
          [startTime |-> now,
           execution |->
              [executionId   |-> IF explicitId # None THEN explicitId[1]
                                 ELSE generateId(t2, rnd),
               workflowName  |-> workflowName,
               steps         |-> << >>,
               status        |-> "pending",
               startedAt     |-> t3,
               completedAt   |-> None,
               totalDuration |-> None,
               metadata      |-> {}]])
    /\ now' = t3
    /\ thrown' = "none"
    /\ UNCHANGED << adapter, xrays, builders, store, collection, nextOid,
                    inflight, completion, logged >>

\* XRayCollector.recordStep
recordStep(c, stepName, reasoning) ==
    /\ c \in 1..Len(collectors)
    /\ Len(collectors[c].execution.steps) < MaxSteps
    /\ collectors' = [collectors EXCEPT ![c].execution.steps = Append(@,
          [id        |-> << "step", now >>,
           stepName  |-> stepName,
           input     |-> "{}",
           output    |-> "{}",
           reasoning |-> reasoning,
           evaluations |-> << >>,
           candidateEvaluations |-> << >>,
           timestamp |-> now,
           metadata  |-> {}])]
    /\ thrown' = "none"
    /\ UNCHANGED << now, adapter, xrays, builders, store, collection, nextOid,
                    inflight, completion, logged >>

\* XRayCollector.setStatus: completedAt at the current time, totalDuration
\* from the clock read at t2.
setStatus(c, status, t2) ==
    /\ c \in 1..Len(collectors)
    /\ now <= t2 /\ t2 <= MaxClock
    /\ collectors' = [collectors EXCEPT
          ![c].execution.status = status,
          ![c].execution.completedAt = Some(now),
          ![c].execution.totalDuration = Some(t2 - collectors[c].startTime)]
    /\ now' = t2
    /\ thrown' = "none"
    /\ UNCHANGED << adapter, xrays, builders, store, collection, nextOid,
                    inflight, completion, logged >>

\* XRayCollector.sendToServer and the POST route that answers it.
\* completedAt and totalDuration are filled in when they are falsy (unset,
\* or a totalDuration of 0), then the Execution is posted as JSON; the route
\* normalizes it and saves it through a MongoDBAdapter, or the request fails.
sendToServer(c, t2, ok) ==
    /\ c \in 1..Len(collectors)
    /\ now <= t2 /\ t2 <= MaxClock
    /\ collectors' = [collectors EXCEPT
          ![c].execution.completedAt = IF @ = None THEN Some(now) ELSE @,
          ![c].execution.totalDuration =
              IF @ = None \/ @ = Some(0)
              THEN Some(t2 - collectors[c].startTime) ELSE @]
    /\ now' = t2
    /\ IF ok
       THEN LET doc == Normalize(Json(collectors'[c].execution))
            IN /\ HasMatch(collection, doc.id) \/ nextOid <= MaxOid
               /\ collection' = ReplaceOne(collection, doc, nextOid)
               /\ nextOid' = IF HasMatch(collection, doc.id)
                             THEN nextOid ELSE nextOid + 1
       ELSE UNCHANGED << collection, nextOid >>
    /\ thrown' = "none"
    /\ UNCHANGED << adapter, xrays, builders, store, inflight, completion,
                    logged >>

\* ---------------------------------------------------- adapter operations
KnownIds == {xrays[r].execution.id : r \in 1..Len(xrays)} \cup {AbsentId}

\* StorageAdapter.get: the stored Execution as Some(e), or null as None
Get(id) ==
    IF adapter = "memory"
    THEN IF MapHas(store, id)
         THEN Some(ExecutionValue(builders, xrays[MapGet(store, id)].execution))
         ELSE None
    ELSE IF HasMatch(collection, id)
         THEN Some(collection[FirstMatch(collection, id)])
         ELSE None

\* The filters passed to query: the empty filter and equality on the
\* top-level fields pipelineName, status and id.
Filters ==
    {<< >>}
    \cup {[pipelineName |-> n] : n \in PipelineNames}
    \cup {[status |-> st] : st \in Statuses}
    \cup {[pipelineName |-> n, status |-> st] : n \in PipelineNames, st \in Statuses}
    \cup {[id |-> i] : i \in ExplicitIds}

\* Mutant of matches: returns at the first key, whether it matched or not.
matchesFirstKey(execution, filter) ==
    \E k \in DOMAIN filter :
        k \in DOMAIN execution /\ execution[k] = filter[k]

\* InMemoryStorage.matches, and the equality match of MongoDB's find: every
\* key of the filter is a field of the document with that value.
matches(execution, filter) ==
    \A k \in DOMAIN filter :
        k \in DOMAIN execution /\ execution[k] = filter[k]

\* StorageAdapter.query: the matching Executions, in storage order
Query(filter) ==
    IF adapter = "memory"
    THEN LET all == [i \in 1..Len(store) |->
                       ExecutionValue(builders, xrays[store[i][2]].execution)]
         IN SelectSeq(all, LAMBDA e : matches(e, filter))
    ELSE SelectSeq(collection, LAMBDA d : matches(d, filter))

\* StorageAdapter.delete
Delete(id) ==
    /\ IF adapter = "memory"
       THEN /\ store' = MapDelete(store, id)
            /\ collection' = collection
       ELSE /\ collection' = DeleteOne(collection, id)
            /\ store' = store
    /\ thrown' = "none"
    /\ UNCHANGED << now, adapter, xrays, builders, nextOid, inflight,
                    completion, logged, collectors >>

\* ------------------------------------------------------- specifications
\* The builders whose step has been pushed onto some Execution
Recorded ==
    {b \in 1..Len(builders) :
        \E r \in 1..Len(xrays) :
            \E i \in 1..Len(xrays[r].execution.steps) :
                xrays[r].execution.steps[i] = b}

\* Spec: one recorder followed through its whole life (steps, result,
\* completion, the adapter's answers) by a caller that fills in a builder
\* before it records it, records it once, and lets the adapter answer a save
\* before it makes the next call; every clock read returns the same time.
Next ==
    \/ \E auto \in BOOLEAN : Create(1, "p1", None, auto, 1, now, now)
          /\ UNCHANGED ext
    \/ \E r \in XRayRefs, name \in StepNames : Step(r, name) /\ UNCHANGED ext
    \/ \E b \in 1..MaxBuilders, e \in Reasons : b \notin Recorded /\ reason(b, e)
          /\ UNCHANGED ext
    \/ \E b \in 1..MaxBuilders :
          b \notin Recorded /\ inflight = {} /\ record(b) /\ UNCHANGED ext
    \/ \E r \in XRayRefs, res \in Results : setResult(r, res) /\ UNCHANGED ext
    \/ \E r \in XRayRefs, s \in Terminal : inflight = {} /\ complete(r, s, now)
          /\ UNCHANGED ext
    \/ \E w \in inflight, ok \in BOOLEAN : MongoReply(w, ok) /\ UNCHANGED ext

Spec == Init /\ [][Next]_vars

\* SpecClock: creation and completion of one recorder with the clock running,
\* also between the clock reads of one call.
NextClock ==
    \/ Tick /\ UNCHANGED ext
    \/ \E t2 \in 0..MaxClock, t3 \in 0..MaxClock :
          Create(1, "p1", None, FALSE, 1, t2, t3) /\ UNCHANGED ext
    \/ \E r \in XRayRefs, s \in Terminal, t2 \in 0..MaxClock : complete(r, s, t2)
          /\ UNCHANGED ext
    \/ \E w \in inflight, ok \in BOOLEAN : MongoReply(w, ok) /\ UNCHANGED ext

SpecClock == Init /\ [][NextClock]_vars

\* SpecStore: two recorders sharing one adapter, saving, completing and
\* deleting, by generated and by caller-chosen ids; the adapter answers a
\* save before the next one is issued.
NextStore ==
    \/ \E r \in XRayRefs, name \in PipelineNames,
          x \in {None} \cup {Some(i) : i \in ExplicitIds} :
          Create(r, name, x, FALSE, 1, now, now) /\ UNCHANGED ext
    \/ \E r \in XRayRefs : inflight = {} /\ save(r) /\ UNCHANGED ext
    \/ \E r \in XRayRefs, s \in {"success", "failure"} :
          inflight = {} /\ complete(r, s, now) /\ UNCHANGED ext
    \/ \E w \in inflight, ok \in BOOLEAN : MongoReply(w, ok) /\ UNCHANGED ext
    \/ \E id \in KnownIds : Delete(id) /\ UNCHANGED ext

SpecStore == Init /\ [][NextStore]_vars

\* SpecCollector: one XRayCollector posting to the server and one XRay
\* recorder completing through its adapter.
NextCollector ==
    \/ \E x \in {None} \cup {Some(i) : i \in ExplicitIds} :
          NewCollector(1, "p1", x, 1, now, now) /\ UNCHANGED ext
    \/ \E c \in {1} : recordStep(c, "s1", "why") /\ UNCHANGED ext
    \/ \E c \in {1}, st \in {"success", "failure"} : setStatus(c, st, now)
          /\ UNCHANGED ext
    \/ \E c \in {1}, ok \in BOOLEAN : sendToServer(c, now, ok) /\ UNCHANGED ext
    \/ \E x \in {None} \cup {Some(i) : i \in ExplicitIds} :
          Create(1, "p1", x, FALSE, 1, now, now) /\ UNCHANGED ext
    \/ \E r \in XRayRefs, st \in Terminal : inflight = {} /\ complete(r, st, now)
          /\ UNCHANGED ext
    \/ \E w \in inflight, ok \in BOOLEAN : MongoReply(w, ok) /\ UNCHANGED ext

SpecCollector == Init /\ [][NextCollector]_vars

\* ------------------------------------------------------------ properties
Execution(r) == xrays[r].execution

\* The fields of the Execution interface of a stored document (MongoDB adds
\* _id to what it returns).
Fields(doc) == [k \in DOMAIN doc \ {"_id"} |-> doc[k]]

\* C1: complete(status) on an Execution whose status is already terminal
\* signals an error (the returned promise rejects) and changes nothing:
\* status, completedAt and totalDuration keep the values of the first
\* complete.
C1_CompleteOnce ==
    [][\A r \in 1..Len(xrays) :
          IsTerminal(Execution(r).status) =>
             /\ xrays'[r].execution.status = Execution(r).status
             /\ xrays'[r].execution.completedAt = Execution(r).completedAt
             /\ xrays'[r].execution.totalDuration = Execution(r).totalDuration
             /\ \A s \in Terminal :
                   complete(r, s, now) => completion'[r] = "rejected"]_vars

\* C2: setResult on an Execution whose status is already terminal fails with
\* "execution already completed" and leaves result unchanged; on a pending
\* Execution it replaces the result.
C2_SetResultGuard ==
    [][\A r \in 1..Len(xrays), res \in Results :
          setResult(r, res) =>
             IF IsTerminal(Execution(r).status)
             THEN /\ thrown' = "execution already completed"
                  /\ xrays'[r].execution.result = Execution(r).result
             ELSE xrays'[r].execution.result = Some(res)]_vars

\* C3: once the Execution is terminal its steps array no longer changes,
\* whatever step(name)...record() calls follow.
C3_FrozenSteps ==
    [][\A r \in 1..Len(xrays) :
          IsTerminal(Execution(r).status) =>
             xrays'[r].execution.steps = Execution(r).steps]_vars

\* C4: round-trip fidelity.  complete(status) hands the adapter the Execution
\* with that status and exactly the steps and result recorded before the
\* call, and once the adapter has stored it get(id) returns that Execution.
C4_RoundTrip ==
    [][/\ \A r \in 1..Len(xrays), s \in Terminal :
             complete(r, s, now) =>
                LET before == ExecutionValue(builders, Execution(r))
                    Faithful(e) == /\ e.status = s
                                   /\ e.steps = before.steps
                                   /\ e.result = before.result
                                   /\ e.id = before.id
                                   /\ e.pipelineName = before.pipelineName
                IN IF adapter = "memory"
                   THEN /\ Get(before.id)' # None
                        /\ Faithful(Get(before.id)'[1])
                   ELSE \E w \in inflight' :
                           /\ inflight' = inflight \cup {w}
                           /\ w.xray = r
                           /\ w.kind = "complete"
                           /\ Faithful(w.doc)
       /\ \A w \in inflight :
             (w.kind = "complete" /\ MongoReply(w, TRUE)) =>
                /\ Get(w.doc.id)' # None
                /\ Fields(Get(w.doc.id)'[1]) = w.doc]_vars

\* C4 witness: a completed Execution with a recorded step and a result is
\* what get(id) returns after complete() resolved.
C4_Witness ==
    \E r \in 1..Len(xrays) :
       /\ completion[r] = "resolved"
       /\ Get(Execution(r).id) # None
       /\ LET e == Get(Execution(r).id)[1]
          IN /\ e.status = "failure"
             /\ Len(e.steps) = 2
             /\ e.steps[1].reasoning = "why"
             /\ e.result = Some("w2")

\* C5: for every terminal Execution totalDuration = completedAt - startedAt
\* and completedAt >= startedAt.
C5_Duration ==
    \A r \in 1..Len(xrays) :
       IsTerminal(Execution(r).status) =>
          /\ Execution(r).totalDuration =
                Some(Execution(r).completedAt[1] - Execution(r).startedAt)
          /\ Execution(r).completedAt[1] >= Execution(r).startedAt

\* Every Execution the adapter holds, as get returns it
Stored ==
    IF adapter = "memory"
    THEN {ExecutionValue(builders, xrays[store[i][2]].execution) :
             i \in 1..Len(store)}
    ELSE {collection[i] : i \in 1..Len(collection)}

StoredIds == {e.id : e \in Stored}

\* completedAt and totalDuration of e are set exactly when e is terminal
SetIffTerminal(e) ==
    /\ IsTerminal(e.status) <=> IsSet(e.completedAt)
    /\ IsTerminal(e.status) <=> IsSet(e.totalDuration)

\* C6: completedAt and totalDuration are set exactly when the status is
\* terminal, in every Execution held by a recorder or a collector, carried
\* by a save in flight, or stored by an adapter.
C6_SetIffTerminal ==
    /\ \A r \in 1..Len(xrays) : SetIffTerminal(Execution(r))
    /\ \A c \in 1..Len(collectors) : SetIffTerminal(collectors[c].execution)
    /\ \A w \in inflight : SetIffTerminal(w.doc)
    /\ \A i \in 1..Len(collection) : SetIffTerminal(collection[i])

\* C7: save is an upsert keyed by id.  The adapter never holds two documents
\* with one id, and when a save has been applied get(id) returns exactly the
\* Execution that save carried, with nothing of an earlier document left.
C7_Upsert ==
    /\ [](/\ \A i, j \in 1..Len(collection) :
                collection[i].id = collection[j].id => i = j
          /\ \A i, j \in 1..Len(store) : store[i][1] = store[j][1] => i = j)
    /\ [][/\ \A w \in inflight :
                MongoReply(w, TRUE) =>
                   /\ Get(w.doc.id)' # None
                   /\ Fields(Get(w.doc.id)'[1]) = w.doc
          /\ \A r \in 1..Len(xrays) :
                (adapter = "memory" /\ save(r)) =>
                   Get(Execution(r).id)' =
                      Some(ExecutionValue(builders, Execution(r)))]_vars

\* C7 witness: two recorders with one id and different content have both
\* completed, so both saves were applied, and the adapter holds the second.
C7_Witness ==
    /\ Len(xrays) = 2
    /\ Execution(1).id = Execution(2).id
    /\ Execution(1).pipelineName # Execution(2).pipelineName
    /\ completion = << "resolved", "resolved" >>
    /\ Cardinality(Stored) = 1
    /\ Fields(Get(Execution(2).id)[1]) = ExecutionValue(builders, Execution(2))

\* The elements of a sequence
Range(q) == {q[i] : i \in 1..Len(q)}

\* C8: query(filter) returns exactly the stored Executions that agree with
\* the filter on every key, each once; the empty filter returns them all.
C8_Query ==
    \A f \in Filters :
       /\ Range(Query(f)) =
             {e \in Stored : \A k \in DOMAIN f : e[k] = f[k]}
       /\ \A i, j \in 1..Len(Query(f)) :
             Query(f)[i].id = Query(f)[j].id => i = j
       /\ (f = << >>) => Range(Query(f)) = Stored

\* C8 witness: two Executions are stored and a filter on pipeline name and
\* status selects one of them.
C8_Witness ==
    /\ Cardinality(Stored) = 2
    /\ Len(Query([pipelineName |-> "p1", status |-> "success"])) = 1
    /\ Len(Query([pipelineName |-> "p1"])) = 2
    /\ Len(Query(<< >>)) = 2
    /\ Len(Query([status |-> "failure"])) = 1

\* C9: delete(id) removes the Execution stored under id and nothing else:
\* get(id) is null afterwards, every other id keeps its document, nothing
\* is thrown, and deleting an id that is not stored changes nothing.
C9_Delete ==
    [][\A id \in KnownIds :
          Delete(id) =>
             /\ Get(id)' = None
             /\ \A other \in KnownIds \ {id} : Get(other)' = Get(other)
             /\ thrown' = "none"
             /\ (Get(id) = None =>
                   /\ store' = store
                   /\ collection' = collection)]_vars

\* C9 witness: both recorders completed (so both were stored) under
\* different ids; the first has been deleted and the second is still there.
C9_Witness ==
    /\ Len(xrays) = 2
    /\ Execution(1).id # Execution(2).id
    /\ completion = << "resolved", "resolved" >>
    /\ Get(Execution(1).id) = None
    /\ Get(Execution(2).id) # None

\* C10: with auto-save on, addStep appends the step, returns normally and
\* issues a save of the Execution as it then is; a failed auto-save is
\* logged and touches neither the recorder, nor its steps, nor any promise
\* the caller holds.
C10_AutoSave ==
    [][/\ \A b \in 1..Len(builders) :
             (record(b) /\ xrays[builders[b].xray].autoSave) =>
                LET r == builders[b].xray
                    after == ExecutionValue(builders', xrays'[r].execution)
                IN /\ xrays'[r].execution.steps = Append(Execution(r).steps, b)
                   /\ thrown' = "none"
                   /\ IF adapter = "memory"
                      THEN Get(Execution(r).id)' = Some(after)
                      ELSE [xray |-> r, kind |-> "auto", doc |-> after]
                              \in inflight' \ inflight
       /\ \A w \in inflight :
             (w.kind = "auto" /\ MongoReply(w, FALSE)) =>
                /\ xrays' = xrays
                /\ builders' = builders
                /\ completion' = completion
                /\ thrown' = thrown
                /\ logged' = logged + 1]_vars

\* C10 witness: an auto-save failed and was logged, and the recorder went on
\* to record both steps, set its result and complete successfully.
C10_Witness ==
    /\ adapter = "mongo"
    /\ Len(xrays) = 1
    /\ xrays[1].autoSave
    /\ logged = 2
    /\ Len(Execution(1).steps) = 2
    /\ Execution(1).result = Some("w1")
    /\ Execution(1).status = "success"
    /\ completion[1] = "resolved"
    /\ Get(Execution(1).id) # None
    /\ Len(Get(Execution(1).id)[1].steps) = 2

\* --------------------------------------------- racing saves (C11, C12)
\* SpecRace: one auto-saving recorder whose caller records steps while the
\* Execution is pending and completes it once, without waiting for the
\* adapter between calls: the auto-saves started by addStep are not awaited,
\* so they are still in flight when complete() sends its own save, and the
\* server answers the commands in any order.
NextRace ==
    \/ Create(1, "p1", None, TRUE, 1, now, now) /\ UNCHANGED ext
    \/ \E r \in XRayRefs, name \in StepNames : Step(r, name) /\ UNCHANGED ext
    \/ \E b \in 1..MaxBuilders :
          /\ b \in 1..Len(builders)
          /\ b \notin Recorded
          /\ Execution(builders[b].xray).status = "pending"
          /\ record(b) /\ UNCHANGED ext
    \/ \E r \in XRayRefs, s \in {"success", "failure"} :
          /\ r \in 1..Len(xrays)
          /\ Execution(r).status = "pending"
          /\ complete(r, s, now) /\ UNCHANGED ext
    \/ \E w \in inflight, ok \in BOOLEAN : MongoReply(w, ok) /\ UNCHANGED ext

SpecRace == Init /\ [][NextRace]_vars

\* C11: with auto-save on, once complete() has returned and every auto-save
\* has settled, get(id) returns the completed Execution (its terminal
\* status, its completedAt, all its steps) and not a pending or partial
\* document left by an auto-save.
C11_CompletionAuthoritative ==
    \A r \in 1..Len(xrays) :
       (xrays[r].autoSave /\ completion[r] = "resolved" /\ inflight = {}) =>
          /\ Get(Execution(r).id) # None
          /\ Fields(Get(Execution(r).id)[1]) =
                ExecutionValue(builders, Execution(r))

\* C12: when the adapter's save fails during complete(status), complete()
\* fails to its caller: on MongoDB the promise stays pending until the server
\* answers the completion save, and a failed answer rejects it.
C12_SaveFailurePropagates ==
    [][/\ \A r \in 1..Len(xrays), s \in Terminal :
             (complete(r, s, now) /\ adapter = "mongo") =>
                /\ completion'[r] = "pending"
                /\ \E w \in inflight' : w.xray = r /\ w.kind = "complete"
       /\ \A w \in inflight :
             (MongoReply(w, FALSE) /\ w.kind = "complete") =>
                completion'[w.xray] = "rejected"]_vars

C12_Witness ==
    \E r \in 1..Len(xrays) :
       /\ completion[r] = "rejected"
       /\ IsTerminal(Execution(r).status)
       /\ ~HasMatch(collection, Execution(r).id)

\* ------------------------------------------------ step builders (C13, C14)
\* SpecBuilder: one recorder and its step builders with the clock running;
\* the caller may call any setter and record() on any builder at any time,
\* also on a builder it has recorded before.
NextBuilder ==
    \/ Tick /\ UNCHANGED ext
    \/ Create(1, "p1", None, FALSE, 1, now, now) /\ UNCHANGED ext
    \/ \E r \in XRayRefs, name \in StepNames : Step(r, name) /\ UNCHANGED ext
    \/ \E b \in 1..MaxBuilders, d \in Data : input(b, d) /\ UNCHANGED ext
    \/ \E b \in 1..MaxBuilders, d \in Data : output(b, d) /\ UNCHANGED ext
    \/ \E b \in 1..MaxBuilders, e \in Reasons : reason(b, e) /\ UNCHANGED ext
    \/ \E b \in 1..MaxBuilders, ms \in Durations : duration(b, ms)
          /\ UNCHANGED ext
    \/ \E b \in 1..MaxBuilders : record(b) /\ UNCHANGED ext

SpecBuilder == Init /\ [][NextBuilder]_vars

\* C13: record() fills in the step's duration: the value given to
\* duration(ms) if it was called, otherwise the time of record() minus the
\* step's creation timestamp; so no recorded step has an unset duration.
C13_RecordFillsDuration ==
    [][\A b \in 1..Len(builders) :
          record(b) =>
             /\ IsSet(builders'[b].stepData.duration)
             /\ builders'[b].stepData.duration =
                   IF IsSet(builders[b].stepData.duration)
                   THEN builders[b].stepData.duration
                   ELSE Some(now - builders[b].stepData.timestamp)]_vars

\* C14: a builder commits once: after its record(), no further call on it (a
\* setter or another record()) changes any Execution.
C14_CommitOnce ==
    [][\A b \in Recorded :
          (\/ record(b)
           \/ \E d \in Data : input(b, d) \/ output(b, d)
           \/ \E e \in Reasons : reason(b, e)
           \/ \E ms \in Durations : duration(b, ms)) =>
             \A r \in 1..Len(xrays) :
                ExecutionValue(builders', xrays'[r].execution) =
                   ExecutionValue(builders, xrays[r].execution)]_vars

\* ------------------------------------------------------- XRay.load (C15)
\* Mutant of Load: without `xray.execution = execution` the recorder keeps
\* the Execution its constructor made for the stored id and pipeline name.
LoadFresh(id) ==
    /\ Len(loaded) < MaxLoads
    /\ loaded' = Append(loaded,
          IF Get(id) = None THEN None
          ELSE Some([startTime |-> now,
                     autoSave  |-> FALSE,
                     ref       |-> 0,
                     copy      |-> Some([id            |-> Get(id)[1].id,
                                         pipelineName  |-> Get(id)[1].pipelineName,
                                         steps         |-> << >>,
                                         status        |-> "pending",
                                         startedAt     |-> now,
                                         completedAt   |-> None,
                                         totalDuration |-> None,
                                         result        |-> None,
                                         metadata      |-> {}])]))
    /\ UNCHANGED << lib, route >>

\* XRay.load: null when storage.get finds nothing, else a new XRay whose
\* execution field is what storage.get returned: the stored object itself
\* with InMemoryStorage (ref is the recorder that owns it), the document
\* findOne built with MongoDB (copy).
Load(id) ==
    /\ Len(loaded) < MaxLoads
    /\ loaded' = Append(loaded,
          IF Get(id) = None THEN None
          ELSE Some([startTime |-> now,
                     autoSave  |-> FALSE,
                     ref       |-> IF adapter = "memory"
                                   THEN MapGet(store, id) ELSE 0,
                     copy      |-> IF adapter = "memory"
                                   THEN None ELSE Get(id)]))
    /\ UNCHANGED << lib, route >>

\* getExecution() of a loaded recorder l, in the heaps xs and bs
LoadedExecution(l, xs, bs) ==
    IF l.ref # 0 THEN ExecutionValue(bs, xs[l.ref].execution) ELSE l.copy[1]

\* SpecLoad: one recorder that records each step before it starts the next,
\* saves, completes once and is deleted, waiting for the adapter after each
\* save, while a reader loads by id from the settled adapter.
NextLoad ==
    \/ Create(1, "p1", None, FALSE, 1, now, now) /\ UNCHANGED ext
    \/ \E r \in XRayRefs, name \in StepNames :
          Recorded = 1..Len(builders) /\ Step(r, name) /\ UNCHANGED ext
    \/ \E b \in 1..MaxBuilders :
          b \notin Recorded /\ inflight = {} /\ record(b) /\ UNCHANGED ext
    \/ \E r \in XRayRefs : inflight = {} /\ save(r) /\ UNCHANGED ext
    \/ \E r \in XRayRefs :
          /\ r \in 1..Len(xrays)
          /\ xrays[r].execution.status = "pending"
          /\ inflight = {}
          /\ complete(r, "success", now) /\ UNCHANGED ext
    \/ \E w \in inflight, ok \in BOOLEAN : MongoReply(w, ok) /\ UNCHANGED ext
    \/ \E id \in KnownIds : inflight = {} /\ Delete(id) /\ UNCHANGED ext
    \/ \E id \in KnownIds : inflight = {} /\ Load(id)

SpecLoad == Init /\ [][NextLoad]_vars

\* C15: load(id, adapter) returns null exactly when the adapter holds
\* nothing under id (never saved, or deleted); otherwise it returns a
\* recorder whose Execution has the fields of the Execution the adapter
\* holds under id (id, pipelineName, status, startedAt, steps in order,
\* result, ...).  load changes neither what the adapter holds nor any
\* recorder's Execution.
C15_Load ==
    [][\A id \in KnownIds :
          Load(id) =>
             LET res == loaded'[Len(loaded')]
             IN /\ (res = None) <=> (Get(id) = None)
                /\ res # None =>
                      Fields(LoadedExecution(res[1], xrays', builders')) =
                         Fields(Get(id)[1])
                /\ Get(id)' = Get(id)
                /\ UNCHANGED << store, collection, xrays, builders >>]_vars

C15_Witness ==
    \E i, j \in 1..Len(loaded) :
       /\ loaded[i] = None
       /\ loaded[j] # None
       /\ IsTerminal(LoadedExecution(loaded[j][1], xrays, builders).status)
       /\ Len(LoadedExecution(loaded[j][1], xrays, builders).steps) > 0

\* --------------------------------- competitor-detection route (C16..C20)
\* A string is kept as the sequence of its whitespace-separated words; the
\* empty string is the empty sequence.  Ratings are in tenths of a star.
StopWords ==
    {"the", "a", "an", "and", "or", "but", "in", "on", "at", "to", "for"}

AccessoryWords == {"brush", "bag", "lid", "replacement", "cleaning"}

\* String.prototype.toLowerCase on one word of the vocabulary
Lower(w) ==
    CASE w = "Bottle" -> "bottle"
      [] w = "Brush" -> "brush"
      [] OTHER -> w

toLowerCase(text) == [i \in 1..Len(text) |-> Lower(text[i])]

\* word.length
WordLen(w) ==
    CASE w = "xl" -> 2
      [] w \in {"for", "the", "mug"} -> 3
      [] w \in {"brush", "Brush"} -> 5
      [] w \in {"bottle", "Bottle"} -> 6
      [] OTHER -> 7

\* word.includes(term): term is a substring of word
WordIncludes(word, term) ==
    term = word \/ << word, term >> \in {<< "bottles", "bottle" >>}

\* text.includes(term) for a term without whitespace: the match lies within
\* one word of text.
Includes(text, term) ==
    \E i \in 1..Len(text) : WordIncludes(text[i], term)

Min(a, b) == IF a <= b THEN a ELSE b

\* The ASIN of the i-th product of the catalog; the second one is the
\* route's default reference ASIN "B0XYZ123".
DefaultAsin == << "B", 0 >>

Asin(i) == IF i = 2 THEN DefaultAsin ELSE << "B", i >>

\* What a product of the aggregation can look like (without its asin):
\* rating is the average of its reviews and 0 when it has none.
Kinds ==
    LET K(t, f, p, ra, re, c, sc) ==
           [title |-> t, features |-> f, price |-> p, rating |-> ra,
            reviews |-> re, category |-> Some(c), subcategory |-> sc]
    IN {K(<< "bottle" >>, << >>, 20, 45, 5, "c1", Some("s1")),
        K(<< "bottle" >>, << >>, 20, 40, 5, "c1", Some("s1")),
        K(<< "bottle" >>, << >>, 20, 45, 1, "c1", Some("s1")),
        K(<< "bottle" >>, << >>, 100, 45, 5, "c1", Some("s1")),
        K(<< "bottle" >>, << >>, 20, 20, 5, "c1", Some("s1")),
        K(<< "bottle" >>, << >>, 20, 0, 0, "c1", Some("s1")),
        K(<< "Bottle", "Brush" >>, << >>, 20, 45, 5, "c1", Some("s1")),
        K(<< "mug" >>, << "bottles" >>, 20, 45, 5, "c1", Some("s1")),
        K(<< "mug" >>, << >>, 20, 45, 5, "c1", Some("s1")),
        K(<< "bottle" >>, << >>, 20, 45, 5, "c2", Some("s1")),
        K(<< "bottle" >>, << >>, 20, 45, 5, "c1", None)}

\* The products collection: asin is unique (scripts/seed-all.ts).
Catalogs ==
    {[i \in 1..Len(c) |-> [asin |-> Asin(i)] @@ c[i]] :
        c \in UNION {[1..n -> Kinds] : n \in 0..MaxProducts}}

CategoryNames == {"c1", "c2"}

SubcategoryNames == {"s1"}

\* The request bodies
Bodies ==
    [productTitle     : {<< >>, << "xl", "for" >>, << "the", "Bottle" >>,
                         << "mug", "bottle" >>},
     category         : {None, Some("c1")},
     subcategory      : {None, Some("s1")},
     referenceProduct : {None, Some([asin |-> Asin(1), price |-> 50])}]

\* const referenceAsin = referenceProduct?.asin || "B0XYZ123": the id
\* recorded as reference_product.asin in the filter, relevance and ranking
\* steps
referenceAsin(referenceProduct) ==
    IF referenceProduct # None THEN referenceProduct[1].asin ELSE DefaultAsin

\* const referencePrice = referenceProduct?.price || 25.0
referencePrice(referenceProduct) ==
    IF referenceProduct # None /\ referenceProduct[1].price # 0
    THEN referenceProduct[1].price
    ELSE 25

\* The aggregation over products: $match on the ids of the category and
\* subcategory documents found by name, no condition for a name that is
\* absent from the request or from the categories collection.
allProducts(catalog, category, subcategory) ==
    SelectSeq(catalog, LAMBDA p :
        /\ (category # None /\ category[1] \in CategoryNames) =>
              p.category = category
        /\ (subcategory # None /\ subcategory[1] \in SubcategoryNames) =>
              p.subcategory = subcategory)

titleWords(productTitle) ==
    SelectSeq(toLowerCase(productTitle),
              LAMBDA word : WordLen(word) > 2 /\ word \notin StopWords)

\* titleWords.join(" ")
primaryKeyword(tw) == tw

secondaryKeyword(tw) == SubSeq(tw, 1, Min(4, Len(tw)))

keywords(tw) ==
    SelectSeq(<< primaryKeyword(tw), secondaryKeyword(tw) >>,
              LAMBDA k : Len(k) > 0)

\* keywords[0].toLowerCase().split(" "), for a non-empty keywords
searchTerms(kw) == toLowerCase(kw[1])

\* The candidate search's `matches`: some term occurs in the title or the
\* features (specifications is projected away by the aggregation).
searchMatches(product, terms) ==
    \E i \in 1..Len(terms) :
        Includes(toLowerCase(product.title \o product.features), terms[i])

candidates(products, referenceProduct, terms) ==
    SelectSeq(products, LAMBDA product :
        /\ ~(referenceProduct # None
             /\ product.asin = referenceProduct[1].asin)
        /\ searchMatches(product, terms))

\* Mutant of filterEvaluations: the rating is evaluated but left out of the
\* overall verdict.
filterEvaluationsTwoRules(cands, refPrice) ==
    [i \in 1..Len(cands) |->
        LET c == cands[i]
            priceInRange == 2 * c.price >= refPrice /\ c.price <= 2 * refPrice
            ratingOk == c.rating >= 30
            reviewsOk == c.reviews >= 1
        IN [asin |-> c.asin,
            title |-> c.title,
            metrics |-> [price |-> c.price, rating |-> c.rating,
                         reviews |-> c.reviews],
            filter_results |-> [price_range |-> priceInRange,
                                min_rating  |-> ratingOk,
                                min_reviews |-> reviewsOk],
            qualified |-> priceInRange /\ reviewsOk]]

\* priceMin = referencePrice * 0.5, priceMax = referencePrice * 2,
\* minRating = 3.0, minReviews = 1
filterEvaluations(cands, refPrice) ==
    [i \in 1..Len(cands) |->
        LET c == cands[i]
            priceInRange == 2 * c.price >= refPrice /\ c.price <= 2 * refPrice
            ratingOk == c.rating >= 30
            reviewsOk == c.reviews >= 1
        IN [asin |-> c.asin,
            title |-> c.title,
            metrics |-> [price |-> c.price, rating |-> c.rating,
                         reviews |-> c.reviews],
            filter_results |-> [price_range |-> priceInRange,
                                min_rating  |-> ratingOk,
                                min_reviews |-> reviewsOk],
            qualified |-> priceInRange /\ ratingOk /\ reviewsOk]]

qualified(evaluations) == SelectSeq(evaluations, LAMBDA e : e.qualified)

\* Mutant of isAccessory: the title is searched as written, without
\* toLowerCase.
isAccessoryExact(title) ==
    \E a \in AccessoryWords : Includes(title, a)

isAccessory(title) ==
    \E a \in AccessoryWords : Includes(toLowerCase(title), a)

\* The values Math.random() returns, in hundredths
Draws == {0, 99}

\* Number.parseFloat(confidence.toFixed(2)) in hundredths, for
\* confidence = isCompetitor ? 0.92 + random * 0.07 : 0.95 + random * 0.04
confidence(isCompetitor, draw) ==
    IF isCompetitor THEN (9200 + 7 * draw + 50) \div 100
    ELSE (9500 + 4 * draw + 50) \div 100

\* Mutant of llmEvaluations: a candidate counts as a competitor only with a
\* confidence of at least 0.95.
llmEvaluationsGated(quals, products, category, subcategory, draws) ==
    [i \in 1..Len(quals) |->
        LET c == quals[i]
            product == products[CHOOSE k \in 1..Len(products) :
                          /\ products[k].asin = c.asin
                          /\ \A j \in 1..(k - 1) : products[j].asin # c.asin]
            isCompetitor == /\ ~isAccessory(c.title)
                            /\ product.category = category
                            /\ product.subcategory = subcategory
        IN [asin |-> c.asin,
            title |-> c.title,
            metrics |-> c.metrics,
            category |-> product.category,
            subcategory |-> product.subcategory,
            is_competitor |-> /\ isCompetitor
                              /\ confidence(isCompetitor, draws[i]) >= 95,
            confidence |-> confidence(isCompetitor, draws[i])]]

\* The relevance classification; product is the first product of
\* allProducts with the candidate's asin, draws[i] what Math.random()
\* returns for the i-th candidate.
llmEvaluations(quals, products, category, subcategory, draws) ==
    [i \in 1..Len(quals) |->
        LET c == quals[i]
            product == products[CHOOSE k \in 1..Len(products) :
                          /\ products[k].asin = c.asin
                          /\ \A j \in 1..(k - 1) : products[j].asin # c.asin]
            sameCategoryScore == IF product.category = category THEN 10 ELSE 5
            sameSubcategoryScore ==
                IF product.subcategory = subcategory THEN 10 ELSE 3
            isCompetitor == /\ ~isAccessory(c.title)
                            /\ sameCategoryScore > 5
                            /\ sameSubcategoryScore > 5
        IN [asin |-> c.asin,
            title |-> c.title,
            metrics |-> c.metrics,
            category |-> product.category,
            subcategory |-> product.subcategory,
            is_competitor |-> isCompetitor,
            confidence |-> confidence(isCompetitor, draws[i])]]

competitors(evaluations) == SelectSeq(evaluations, LAMBDA e : e.is_competitor)

\* Mutant of competitorFullData: every qualified candidate goes on to the
\* ranking, whatever the classification said.
competitorFullDataAll(quals, comps) == quals

competitorFullData(quals, comps) ==
    SelectSeq(quals, LAMBDA q :
        \E i \in 1..Len(comps) : comps[i].asin = q.asin)

\* Number(totalScore.toFixed(4)) in ten-thousandths, for
\* totalScore = 0.6 * min(1, reviews / 10000) + 0.3 * rating / 5
\*            + 0.1 * (1 - |price - referencePrice| / max(price, referencePrice))
total_score(metrics, refPrice) ==
    LET hi == IF metrics.price >= refPrice THEN metrics.price ELSE refPrice
        dist == IF metrics.price >= refPrice THEN metrics.price - refPrice
                ELSE refPrice - metrics.price
        num == 6 * Min(metrics.reviews, 10000) * hi
               + 600 * metrics.rating * hi
               + 10000 * (hi - dist)
        den == 10 * hi
    IN (2 * num + den) \div (2 * den)

\* Mutant of SortByScore: an entry is put before the entries of equal score.
RECURSIVE SortByScoreUnstable(_)
SortByScoreUnstable(q) ==
    IF q = << >> THEN << >>
    ELSE LET front == SortByScoreUnstable(SubSeq(q, 1, Len(q) - 1))
             x == q[Len(q)]
             k == Cardinality({i \in 1..Len(front) :
                                  front[i].total_score > x.total_score})
         IN SubSeq(front, 1, k) \o << x >> \o SubSeq(front, k + 1, Len(front))

\* Array.prototype.sort((a, b) => b.total_score - a.total_score): stable,
\* by descending score.
RECURSIVE SortByScore(_)
SortByScore(q) ==
    IF q = << >> THEN << >>
    ELSE LET front == SortByScore(SubSeq(q, 1, Len(q) - 1))
             x == q[Len(q)]
             k == Cardinality({i \in 1..Len(front) :
                                  front[i].total_score >= x.total_score})
         IN SubSeq(front, 1, k) \o << x >> \o SubSeq(front, k + 1, Len(front))

rankedCompetitors(full, refPrice) ==
    LET scored == [i \in 1..Len(full) |->
                      [asin |-> full[i].asin,
                       title |-> full[i].title,
                       metrics |-> full[i].metrics,
                       total_score |-> total_score(full[i].metrics, refPrice)]]
        sorted == SortByScore(scored)
    IN [i \in 1..Len(sorted) |-> sorted[i] @@ [rank |-> i]]

\* MIN_REVIEWS_FOR_WINNER = 2, MIN_RATING_FOR_WINNER = 3.0
eligibleForWinner(ranked) ==
    SelectSeq(ranked, LAMBDA c :
        c.metrics.reviews >= 2 /\ c.metrics.rating >= 30)

\* Mutant of selected: the top of the ranking, whatever the business rules
\* say.
selectedTop(ranked) ==
    IF ranked # << >> THEN Some(ranked[1]) ELSE None

\* eligibleForWinner[0] ?? rankedCompetitors[0]; None for undefined
selected(ranked) ==
    IF eligibleForWinner(ranked) # << >> THEN Some(eligibleForWinner(ranked)[1])
    ELSE IF ranked # << >> THEN Some(ranked[1])
    ELSE None

\* The names of the rules in the order of the keys of filter_results
FilterNames == << "price_range", "min_rating", "min_reviews" >>

\* The argument of .candidates() in the apply_filters step; a detail string
\* is kept as the name of its rule.
filterCandidates(evaluations) ==
    [i \in 1..Len(evaluations) |->
        LET e == evaluations[i]
        IN [candidate |-> [id |-> e.asin, title |-> e.title] @@ e.metrics,
            passed |-> e.qualified,
            evaluations |-> e.filter_results,
            failureReasons |->
                SelectSeq(FilterNames, LAMBDA n : ~e.filter_results[n])]]

\* The argument of .candidates() in the llm_relevance_evaluation step
llmCandidates(evaluations) ==
    [i \in 1..Len(evaluations) |->
        LET e == evaluations[i]
        IN [candidate |-> [id |-> e.asin, title |-> e.title] @@ e.metrics,
            passed |-> e.is_competitor,
            failureReasons |-> IF e.is_competitor THEN << >>
                               ELSE << "false positive" >>,
            metadata |-> [confidence |-> e.confidence]]]

\* The argument of .candidates() in the rank_and_select step
rankCandidates(ranked, winner) ==
    [i \in 1..Len(ranked) |->
        LET c == ranked[i]
        IN [candidate |-> [id |-> c.asin, title |-> c.title] @@ c.metrics,
            passed |-> c.asin = winner.asin,
            score |-> c.total_score,
            rank |-> c.rank,
            failureReasons |->
                IF c.metrics.reviews >= 2 /\ c.metrics.rating >= 30
                THEN << >> ELSE << "business rules" >>]]

\* xray.step(name).input(..).output(..).reason(why)[.candidates(results)]
\* .record() on a recorder without auto-save: a new builder is filled in and
\* its step object pushed onto the Execution; results is None when
\* .candidates() is not called.
StepChain(r, name, why, results) ==
    /\ builders' = Append(builders,
          [xray |-> r,
           stepData |-> [id        |-> << "step", now >>,
                         name      |-> name,
                         timestamp |-> now,
                         input     |-> "d",
                         output    |-> "d",
                         reasoning |-> why,
                         candidateResults |-> results,
                         duration  |-> None]])
    /\ xrays' = [xrays EXCEPT ![r].execution.steps =
                    Append(@, Len(builders) + 1)]

\* POST up to XRay.create: 400 without a productTitle, 500 from the catch
\* block when getDatabase() throws, else the recorder is created.
Post(body, dbOk) ==
    /\ route.pc = "idle"
    /\ IF body.productTitle = << >>
       THEN /\ route' = [route EXCEPT !.pc = "done", !.body = Some(body),
                                      !.response = 400]
            /\ UNCHANGED lib
       ELSE IF ~dbOk
       THEN /\ route' = [route EXCEPT !.pc = "done", !.body = Some(body),
                                      !.response = 500]
            /\ UNCHANGED lib
       ELSE /\ Create(Len(xrays) + 1, "Competitor Detection Pipeline", None,
                      FALSE, 1, now, now)
            /\ route' = [route EXCEPT !.pc = "fetch", !.body = Some(body),
                                      !.xray = Len(xrays) + 1]
    /\ loaded' = loaded

\* The category lookups and the aggregation; a failed read is caught at
\* the end of the handler.
FetchProducts(catalog, ok) ==
    /\ route.pc = "fetch"
    /\ route' = IF ok
                THEN [route EXCEPT
                        !.pc = "keywords",
                        !.allProducts =
                            allProducts(catalog, route.body[1].category,
                                        route.body[1].subcategory)]
                ELSE [route EXCEPT !.pc = "done", !.response = 500]
    /\ UNCHANGED << lib, loaded >>

\* Step 1; with no keyword, keywords[0] is undefined and
\* keywords[0].toLowerCase() throws a TypeError after the step is recorded.
KeywordGeneration ==
    /\ route.pc = "keywords"
    /\ LET tw == titleWords(route.body[1].productTitle)
       IN /\ StepChain(route.xray, "keyword_generation",
                       IF Len(tw) = 0 THEN "Extracted 0 key terms"
                       ELSE "Extracted key terms", None)
          /\ route' = IF keywords(tw) = << >>
                      THEN [route EXCEPT !.pc = "done", !.response = 500]
                      ELSE [route EXCEPT !.pc = "search",
                                         !.keywords = keywords(tw),
                                         !.searchTerms = searchTerms(keywords(tw))]
    /\ UNCHANGED << now, adapter, store, collection, nextOid, inflight,
                    completion, logged, thrown, collectors, loaded >>

\* Step 2
CandidateSearch ==
    /\ route.pc = "search"
    /\ LET found == candidates(route.allProducts,
                               route.body[1].referenceProduct,
                               route.searchTerms)
       IN /\ StepChain(route.xray, "candidate_search",
                       IF Len(found) > 0 THEN "Found products"
                       ELSE "No products found", None)
          /\ route' = [route EXCEPT !.pc = "filters", !.candidates = found]
    /\ UNCHANGED << now, adapter, store, collection, nextOid, inflight,
                    completion, logged, thrown, collectors, loaded >>

\* Step 3
ApplyFilters ==
    /\ route.pc = "filters"
    /\ StepChain(route.xray, "apply_filters", "Applied filters",
          Some(filterCandidates(
              filterEvaluations(route.candidates,
                  referencePrice(route.body[1].referenceProduct)))))
    /\ route' = [route EXCEPT
          !.pc = "llm",
          !.filterEvaluations =
              filterEvaluations(route.candidates,
                  referencePrice(route.body[1].referenceProduct))]
    /\ UNCHANGED << now, adapter, store, collection, nextOid, inflight,
                    completion, logged, thrown, collectors, loaded >>

\* Step 4; draws are the values Math.random() returns, one per qualified
\* candidate.
LlmEvaluation(draws) ==
    /\ route.pc = "llm"
    /\ StepChain(route.xray, "llm_relevance_evaluation",
          "LLM removed false positives",
          Some(llmCandidates(
              llmEvaluations(qualified(route.filterEvaluations),
                             route.allProducts, route.body[1].category,
                             route.body[1].subcategory, draws))))
    /\ route' = [route EXCEPT
          !.pc = "rank",
          !.llmEvaluations =
              llmEvaluations(qualified(route.filterEvaluations),
                             route.allProducts, route.body[1].category,
                             route.body[1].subcategory, draws)]
    /\ UNCHANGED << now, adapter, store, collection, nextOid, inflight,
                    completion, logged, thrown, collectors, loaded >>

\* Ranking and selection: with nothing selected the Execution is completed
\* as a failure and the counts are kept for the 404 response; otherwise
\* step 5 is recorded.
RankAndSelect ==
    /\ route.pc = "rank"
    /\ LET ranked ==
              rankedCompetitors(
                  competitorFullData(qualified(route.filterEvaluations),
                                     competitors(route.llmEvaluations)),
                  referencePrice(route.body[1].referenceProduct))
       IN IF selected(ranked) = None
          THEN /\ complete(route.xray, "failure", now)
               /\ route' = [route EXCEPT
                     !.pc = "await",
                     !.rankedCompetitors = Some(ranked),
                     !.details = Some(
                        [totalProducts |-> Len(route.allProducts),
                         candidatesFound |-> Len(route.candidates),
                         passedFilters |->
                            Len(qualified(route.filterEvaluations)),
                         confirmedCompetitors |->
                            Len(competitors(route.llmEvaluations))])]
          ELSE /\ StepChain(route.xray, "rank_and_select", "Selected rank",
                     Some(rankCandidates(ranked, selected(ranked)[1])))
               /\ route' = [route EXCEPT !.pc = "result",
                                         !.rankedCompetitors = Some(ranked),
                                         !.selected = selected(ranked)]
               /\ UNCHANGED << now, adapter, store, collection, nextOid,
                               inflight, completion, logged, thrown,
                               collectors >>
    /\ loaded' = loaded

\* xray.setResult({selected, reason, confidence})
SetResult ==
    /\ route.pc = "result"
    /\ setResult(route.xray, [id |-> route.selected[1].asin,
                              confidence |-> route.selected[1].total_score])
    /\ route' = [route EXCEPT !.pc = "complete"]
    /\ loaded' = loaded

\* await xray.complete("success"): the call
CompleteSuccess ==
    /\ route.pc = "complete"
    /\ complete(route.xray, "success", now)
    /\ route' = [route EXCEPT !.pc = "await"]
    /\ loaded' = loaded

\* Mutant of Respond: the handler answers without awaiting complete().
RespondEarly ==
    /\ route.pc = "await"
    /\ route' = [route EXCEPT
          !.pc = "done",
          !.response = IF route.selected = None THEN 404 ELSE 200]
    /\ UNCHANGED << lib, loaded >>

\* The handler resumes after await xray.complete(..): the response of its
\* branch when the save succeeded, the catch block's 500 when it failed.
Respond ==
    /\ route.pc = "await"
    /\ completion[route.xray] \in {"resolved", "rejected"}
    /\ route' = [route EXCEPT
          !.pc = "done",
          !.response = IF completion[route.xray] = "rejected" THEN 500
                       ELSE IF route.selected = None THEN 404 ELSE 200]
    /\ UNCHANGED << lib, loaded >>

\* n draws of Math.random() that all return 0
Zeros(n) == [i \in 1..n |-> 0]

\* SpecPipeline: one request to the competitor-detection route, from the
\* body to the response, with the MongoDB adapter the route constructs;
\* every Math.random() of the relevance stage returns 0.
InitPipeline == Init /\ adapter = "mongo"

NextPipeline ==
    \/ \E body \in Bodies, dbOk \in BOOLEAN : Post(body, dbOk)
    \/ \E catalog \in Catalogs, ok \in BOOLEAN : FetchProducts(catalog, ok)
    \/ KeywordGeneration
    \/ CandidateSearch
    \/ ApplyFilters
    \/ LlmEvaluation(Zeros(Len(qualified(route.filterEvaluations))))
    \/ RankAndSelect
    \/ SetResult
    \/ CompleteSuccess
    \/ \E w \in inflight, ok \in BOOLEAN : MongoReply(w, ok) /\ UNCHANGED ext
    \/ Respond

SpecPipeline == InitPipeline /\ [][NextPipeline]_vars

\* SpecRandom: a request for one title with every outcome of the random
\* draws of the relevance stage, and a database that answers.
NextRandom ==
    \/ \E body \in Bodies :
          body.productTitle = << "the", "Bottle" >> /\ Post(body, TRUE)
    \/ \E catalog \in Catalogs : FetchProducts(catalog, TRUE)
    \/ KeywordGeneration
    \/ CandidateSearch
    \/ ApplyFilters
    \/ \E draws \in [1..Len(qualified(route.filterEvaluations)) -> Draws] :
          LlmEvaluation(draws)
    \/ RankAndSelect
    \/ SetResult
    \/ CompleteSuccess
    \/ \E w \in inflight : MongoReply(w, TRUE) /\ UNCHANGED ext
    \/ Respond

SpecRandom == InitPipeline /\ [][NextRandom]_vars

\* The stage populations of the run, by asin and title
Ident(q) == {<< q[i].asin, q[i].title >> : i \in 1..Len(q)}

\* C16: the stages only narrow: the candidates passing the rule filters are
\* among the candidates of the search, the confirmed competitors are among
\* those that passed the filters, the ranked list holds only confirmed
\* competitors and the selected winner is a confirmed competitor.
C16_Narrowing ==
    LET found == Ident(route.candidates)
        passed == Ident(qualified(route.filterEvaluations))
        confirmed == Ident(competitors(route.llmEvaluations))
    IN /\ found \subseteq Ident(route.allProducts)
       /\ Ident(route.filterEvaluations) \subseteq found
       /\ passed \subseteq found
       /\ Ident(route.llmEvaluations) \subseteq passed
       /\ confirmed \subseteq passed
       /\ route.rankedCompetitors # None =>
             Ident(route.rankedCompetitors[1]) \subseteq confirmed
       /\ route.selected # None =>
             << route.selected[1].asin, route.selected[1].title >> \in confirmed

C16_Witness ==
    /\ route.selected # None
    /\ Len(route.candidates) = 2
    /\ Len(qualified(route.filterEvaluations)) = 2
    /\ Len(competitors(route.llmEvaluations)) = 1
    /\ Len(route.rankedCompetitors[1]) = 1

C18_EmptyIsFailure ==
    /\ (route.rankedCompetitors # None /\ route.candidates = << >>) =>
          route.rankedCompetitors = Some(<< >>)
    /\ route.rankedCompetitors = Some(<< >>) =>
          /\ Execution(route.xray).status = "failure"
          /\ IsSet(Execution(route.xray).completedAt)
          /\ route.pc = "done" => route.response \in {404, 500}
          /\ route.response = 500 => completion[route.xray] = "rejected"
          /\ route.response = 404 =>
                /\ Get(Execution(route.xray).id) # None
                /\ Fields(Get(Execution(route.xray).id)[1]) =
                      ExecutionValue(builders, Execution(route.xray))

C18_Witness ==
    /\ route.response = 404
    /\ route.allProducts # << >>
    /\ route.candidates = << >>
    /\ Get(Execution(route.xray).id)[1].status = "failure"

\* C19: the failure Execution stored when no candidate survived records the
\* diagnostic counts (candidates found, passed per stage) in its result or
\* its metadata.
C19_FailureDiagnostics ==
    route.response = 404 =>
       \/ IsSet(Get(Execution(route.xray).id)[1].result)
       \/ Get(Execution(route.xray).id)[1].metadata # {}

\* C20: a title that yields no keyword ends the request as a validation
\* failure: no Execution was created, or the Execution is completed with
\* status failure and holds the keyword step only.
C20_ZeroKeywords ==
    (/\ route.pc = "done"
     /\ route.body[1].productTitle # << >>
     /\ keywords(titleWords(route.body[1].productTitle)) = << >>) =>
       \/ route.xray = 0
       \/ /\ Execution(route.xray).status = "failure"
          /\ Len(Execution(route.xray).steps) = 1

\* The title has a word that, in lower case, contains one of brush, bag,
\* lid, replacement, cleaning.
AccessoryTitle(title) ==
    \E i \in 1..Len(title) :
       \E a \in AccessoryWords : WordIncludes(Lower(title[i]), a)

\* C21: a candidate whose title contains, in any letter case, brush, bag,
\* lid, replacement or cleaning is never a confirmed competitor, never in
\* the ranked list and never the selected winner, whatever its category
\* match and metrics.
C21_AccessoryRejected ==
    /\ \A i \in 1..Len(route.llmEvaluations) :
          AccessoryTitle(route.llmEvaluations[i].title) =>
             ~route.llmEvaluations[i].is_competitor
    /\ route.rankedCompetitors # None =>
          \A i \in 1..Len(route.rankedCompetitors[1]) :
             ~AccessoryTitle(route.rankedCompetitors[1][i].title)
    /\ route.selected # None => ~AccessoryTitle(route.selected[1].title)

C21_Witness ==
    /\ route.response = 200
    /\ \E i \in 1..Len(route.llmEvaluations) :
          /\ AccessoryTitle(route.llmEvaluations[i].title)
          /\ route.llmEvaluations[i].category = route.body[1].category
          /\ route.llmEvaluations[i].subcategory = route.body[1].subcategory

\* Position of the product with this asin among the candidates of the search
CandidateIndex(asin) ==
    CHOOSE k \in 1..Len(route.candidates) : route.candidates[k].asin = asin

\* C22: the ranked list has one entry per confirmed competitor, ranks
\* 1..n in list order, scores that never increase down the list, and
\* entries of equal score in their original candidate order.
C22_RankedOrder ==
    route.rankedCompetitors # None =>
       LET ranked == route.rankedCompetitors[1]
       IN /\ Len(ranked) = Len(competitors(route.llmEvaluations))
          /\ Ident(ranked) = Ident(competitors(route.llmEvaluations))
          /\ \A i \in 1..Len(ranked) :
                /\ ranked[i].rank = i
                /\ ranked[i].total_score =
                      total_score(ranked[i].metrics,
                          referencePrice(route.body[1].referenceProduct))
          /\ \A i, j \in 1..Len(ranked) :
                i < j =>
                   /\ ranked[i].total_score >= ranked[j].total_score
                   /\ ranked[i].total_score = ranked[j].total_score =>
                         CandidateIndex(ranked[i].asin) <
                            CandidateIndex(ranked[j].asin)

\* Two ranked competitors of equal score
C22_Witness ==
    /\ route.rankedCompetitors # None
    /\ Len(route.rankedCompetitors[1]) = 2
    /\ route.rankedCompetitors[1][1].total_score =
          route.rankedCompetitors[1][2].total_score

\* The ranking the run's request and fetched products determine, computed
\* with every random draw at 0
DecidedEvaluations ==
    LET body == route.body[1]
        found == candidates(route.allProducts, body.referenceProduct,
                     searchTerms(keywords(titleWords(body.productTitle))))
        quals == qualified(filterEvaluations(found,
                     referencePrice(body.referenceProduct)))
    IN llmEvaluations(quals, route.allProducts, body.category,
                      body.subcategory, Zeros(Len(quals)))

DecidedRanking ==
    LET body == route.body[1]
        found == candidates(route.allProducts, body.referenceProduct,
                     searchTerms(keywords(titleWords(body.productTitle))))
        quals == qualified(filterEvaluations(found,
                     referencePrice(body.referenceProduct)))
    IN rankedCompetitors(
          competitorFullData(quals, competitors(DecidedEvaluations)),
          referencePrice(body.referenceProduct))

\* C23: the decision does not depend on the random draws of the relevance
\* stage: whatever they are, the confirmed set, the scores and ranking, the
\* selected winner and the final status are the ones the request and the
\* catalog determine (those of the run in which every draw is 0), so two
\* runs that differ only in the draws agree on all of them.
C23_Deterministic ==
    /\ (route.pc = "rank" \/ route.rankedCompetitors # None) =>
          /\ Len(route.llmEvaluations) = Len(DecidedEvaluations)
          /\ \A i \in 1..Len(route.llmEvaluations) :
                /\ route.llmEvaluations[i].asin = DecidedEvaluations[i].asin
                /\ route.llmEvaluations[i].is_competitor =
                      DecidedEvaluations[i].is_competitor
    /\ route.rankedCompetitors # None =>
          /\ route.rankedCompetitors[1] = DecidedRanking
          /\ route.selected = selected(DecidedRanking)
          /\ route.pc \in {"await", "done"} =>
                Execution(route.xray).status =
                   IF selected(DecidedRanking) = None THEN "failure"
                   ELSE "success"

C23_Witness ==
    /\ route.response = 200
    /\ Len(route.llmEvaluations) = 2
    /\ route.llmEvaluations[1].confidence # route.llmEvaluations[2].confidence
    /\ route.llmEvaluations[1].is_competitor
    /\ route.llmEvaluations[2].is_competitor

\* The steps of the run's Execution, as values
RunSteps == ExecutionValue(builders, Execution(route.xray)).steps

\* C24: in the apply_filters step every candidate of the search has one
\* verdict for each of the three rules (price within 0.5x..2x of the
\* reference price, rating >= 3.0, reviews >= 1), its passed is the
\* conjunction of the three, and its failureReasons holds one reason per
\* failed rule, so it is non-empty exactly when passed is false.
C24_FilterVerdicts ==
    \A k \in 1..(IF route.xray = 0 THEN 0 ELSE Len(RunSteps)) :
       RunSteps[k].name = "apply_filters" =>
          LET results == RunSteps[k].candidateResults[1]
              ref == referencePrice(route.body[1].referenceProduct)
          IN /\ Len(results) = Len(route.candidates)
             /\ \A i \in 1..Len(results) :
                   LET res == results[i]
                       c == route.candidates[i]
                       failed == {n \in DOMAIN res.evaluations :
                                     ~res.evaluations[n]}
                   IN /\ res.candidate.id = c.asin
                      /\ DOMAIN res.evaluations =
                            {"price_range", "min_rating", "min_reviews"}
                      /\ res.evaluations.price_range <=>
                            (2 * c.price >= ref /\ c.price <= 2 * ref)
                      /\ res.evaluations.min_rating <=> c.rating >= 30
                      /\ res.evaluations.min_reviews <=> c.reviews >= 1
                      /\ res.passed <=> failed = {}
                      /\ (res.failureReasons # << >>) <=> ~res.passed
                      /\ Len(res.failureReasons) = Cardinality(failed)
                      /\ {res.failureReasons[j] :
                             j \in 1..Len(res.failureReasons)} = failed

C24_Witness ==
    /\ route.xray # 0
    /\ \E k \in 1..Len(RunSteps) :
          /\ RunSteps[k].name = "apply_filters"
          /\ Len(RunSteps[k].candidateResults[1]) = 2
          /\ RunSteps[k].candidateResults[1][1].passed
          /\ Len(RunSteps[k].candidateResults[1][2].failureReasons) = 2

\* The step names of the five stages, in stage order
StageNames == << "keyword_generation", "candidate_search", "apply_filters",
                 "llm_relevance_evaluation", "rank_and_select" >>

\* The names of the steps of the run's Execution, in order
RunNames == [k \in 1..Len(RunSteps) |-> RunSteps[k].name]

\* The success half of C25: a run completed with success has exactly the five
\* steps, in stage order.
SuccessSteps ==
    (route.xray # 0 /\ Execution(route.xray).status = "success")
        => RunNames = StageNames

UnsavedChange ==
    \/ \E r \in XRayRefs, res \in Results : setResult(r, res)
    \/ \E b \in 1..Len(builders) :
          /\ ~xrays[builders[b].xray].autoSave
          /\ record(b)

\* C26: what get(id) returns changes only through a save or a delete for
\* that id: a step added or a result set on the recorder without a save
\* leaves get(id) as it was, for every id.
C26_AdapterOwnsCopy ==
    [][UnsavedChange => \A id \in KnownIds : Get(id)' = Get(id)]_vars

\* The same for the MongoDB adapter alone, which stores the document that
\* the save call carried.
MongoOwnsCopy ==
    [][(adapter = "mongo" /\ UnsavedChange)
          => \A id \in KnownIds : Get(id)' = Get(id)]_vars

\* ------------------------------------------------------------- SpecTwo
\* The values Math.random() contributes to a generated id
RandomSuffixes == {1, 2}

\* SpecTwo: two recorders created without an explicit id on the same
\* adapter, by callers that run interleaved; each records steps while its
\* Execution is pending and completes it once.
NextTwo ==
    \/ Tick /\ UNCHANGED ext
    \/ \E r \in XRayRefs, rnd \in RandomSuffixes :
          Create(r, IF r = 1 THEN "p1" ELSE "p2", None, FALSE, rnd, now, now)
          /\ UNCHANGED ext
    \/ \E r \in XRayRefs, name \in StepNames : Step(r, name) /\ UNCHANGED ext
    \/ \E b \in 1..MaxBuilders :
          /\ b \in 1..Len(builders)
          /\ b \notin Recorded
          /\ Execution(builders[b].xray).status = "pending"
          /\ record(b) /\ UNCHANGED ext
    \/ \E r \in XRayRefs, s \in {"success", "failure"} :
          /\ r \in 1..Len(xrays)
          /\ Execution(r).status = "pending"
          /\ complete(r, s, now) /\ UNCHANGED ext
    \/ \E w \in inflight, ok \in BOOLEAN : MongoReply(w, ok) /\ UNCHANGED ext

SpecTwo == Init /\ [][NextTwo]_vars

\* The recorder's complete() has returned without an error.
Completed(r) == completion[r] = "resolved"

\* get(id) returns the Execution of recorder r.
GetsOwn(r) ==
    /\ Get(Execution(r).id) # None
    /\ LET got == Get(Execution(r).id)[1]
       IN (IF adapter = "mongo" THEN Fields(got) ELSE got)
             = ExecutionValue(builders, Execution(r))

\* C27: two recorders created without an explicit id on the same adapter
\* have different generated ids, and once both have completed, get of each
\* id returns that recorder's own Execution.
C27_NoInterference ==
    \A r1, r2 \in 1..Len(xrays) :
       r1 # r2 =>
          /\ Execution(r1).id # Execution(r2).id
          /\ (Completed(r1) /\ Completed(r2)) => GetsOwn(r1) /\ GetsOwn(r2)

\* The part of C27 that does not rest on the generated ids: recorders whose
\* ids differ do not interfere.
DistinctIdsNoInterference ==
    \A r1, r2 \in 1..Len(xrays) :
       (/\ r1 # r2
        /\ Execution(r1).id # Execution(r2).id
        /\ Completed(r1) /\ Completed(r2)) => GetsOwn(r1) /\ GetsOwn(r2)

\* With equal ids the later save replaces the earlier recorder's Execution.
Overwritten ==
    \E r1, r2 \in 1..Len(xrays) :
       /\ r1 # r2
       /\ Completed(r1) /\ Completed(r2)
       /\ ~GetsOwn(r1)

\* No candidate and no winner of the run has the id ref.
Excludes(ref) ==
    /\ \A i \in 1..Len(route.candidates) : route.candidates[i].asin # ref
    /\ route.selected # None => route.selected[1].asin # ref

\* C28: by the reference id the run records in its trace, no candidate of
\* the candidate search and no selected winner is the reference item, also
\* when the request has no reference product and the default id is recorded.
C28_ReferenceExcluded ==
    route.body # None => Excludes(referenceAsin(route.body[1].referenceProduct))

\* The same for the requests that supply a reference product.
SuppliedReferenceExcluded ==
    (route.body # None /\ route.body[1].referenceProduct # None)
        => Excludes(route.body[1].referenceProduct[1].asin)

\* The handler has returned its response.
RunEnded == route.pc = "done" /\ route.xray # 0

\* C29: no run that created an Execution ends with the Execution pending or
\* unsaved: when the handler has returned, the Execution has a terminal
\* status and the adapter holds it.
C29_RunTerminates ==
    RunEnded =>
       /\ IsTerminal(Execution(route.xray).status)
       /\ Get(Execution(route.xray).id) # None

\* The runs whose stages and reads all go through and whose save is
\* acknowledged do end with a terminal, saved Execution.
AnsweredRunTerminates ==
    (RunEnded /\ route.response \in {200, 404}) =>
       /\ IsTerminal(Execution(route.xray).status)
       /\ Get(Execution(route.xray).id) # None

\* C30: complete(status) sets status, completedAt and totalDuration on the
\* recorder's Execution at the call, before the adapter has answered, and
\* leaves the adapter's documents alone; when the save of that call then
\* fails, the Execution keeps the requested terminal status with completedAt
\* and totalDuration set, complete() rejects, and the adapter holds what it
\* held before the call.
C30_CompleteBeforeSave ==
    [][/\ \A r \in XRayRefs, s \in Terminal :
             (adapter = "mongo" /\ complete(r, s, now)) =>
                /\ Execution(r)'.status = s
                /\ Execution(r)'.completedAt = Some(now)
                /\ Execution(r)'.totalDuration # None
                /\ collection' = collection
                /\ \E w \in inflight' : w.kind = "complete" /\ w.doc.status = s
       /\ \A w \in inflight :
             (w.kind = "complete" /\ MongoReply(w, FALSE)) =>
                /\ Execution(w.xray)'.status = w.doc.status
                /\ IsTerminal(Execution(w.xray)'.status)
                /\ Execution(w.xray)'.completedAt # None
                /\ Execution(w.xray)'.totalDuration # None
                /\ completion'[w.xray] = "rejected"
                /\ collection' = collection
                /\ Get(w.doc.id)' = Get(w.doc.id)]_vars

\* A complete() whose save failed: the recorder's Execution is terminal
\* and the adapter still holds the pending document of an earlier save.
C30_Witness ==
    \E r \in 1..Len(xrays) :
       /\ completion[r] = "rejected"
       /\ IsTerminal(Execution(r).status)
       /\ Execution(r).completedAt # None
       /\ Get(Execution(r).id) # None
       /\ Get(Execution(r).id)[1].status = "pending"
====
